---- MODULE Spec2Model ----
(***************************************************************************)
(* A model of class template BST (src/BST.h): the node store, myRoot and   *)
(* the public operations empty, search, insert, remove, inorder, preorder  *)
(* and postorder, each as the source implements it.                       *)
(*                                                                         *)
(* Nodes live in a store of MaxNodes slots.  A BinNodePointer is a slot    *)
(* number, or NULL.  `alloc` is the set of slots holding a live node (one  *)
(* made by new and not yet deleted).  A deleted slot keeps the bytes it    *)
(* had; reading it through a dangling pointer is undefined behaviour and   *)
(* either faults (status "crashed") or yields those bytes.                 *)
(***************************************************************************)
EXTENDS Integers, FiniteSets, Sequences

\* Number of node slots in the store.
MaxNodes == 4
\* Element values are 1..MaxVal, compared with <.
MaxVal == 4
\* Number of remove calls that run past the found test.
MaxRemoves == 1

NULL == 0
Ptr == 1..MaxNodes
PtrOrNull == Ptr \cup {NULL}
Val == 1..MaxVal
\* The data part of a slot that never held a node.
NoVal == 0

VARIABLES
    data,     \* BinNode::data of every slot
    left,     \* BinNode::left of every slot
    right,    \* BinNode::right of every slot
    alloc,    \* slots holding a live node
    myRoot,   \* BST::myRoot
    status,   \* "ok", or how the process ended: "crashed", "hang"
    removes,  \* remove calls that ran past the found test so far
    last      \* the last call: operation, argument, what it returned

vars == <<data, left, right, alloc, myRoot, status, removes, last>>
heap == <<data, left, right, alloc, myRoot>>

\* What a call leaves for its caller to see.
Call(op, item, threw, ret, out, x) ==
    [op |-> op, item |-> item, threw |-> threw, ret |-> ret, out |-> out, x |-> x]

(***************************************************************************)
(* Constructor: an empty tree.                                             *)
(***************************************************************************)
Init ==
    /\ data = [p \in Ptr |-> NoVal]
    /\ left = [p \in Ptr |-> NULL]
    /\ right = [p \in Ptr |-> NULL]
    /\ alloc = {}
    /\ myRoot = NULL
    /\ status = "ok"
    /\ removes = 0
    /\ last = Call("none", 0, FALSE, FALSE, <<>>, NULL)

\* The call ends the process: a fault, or a loop that never ends.
Abend(how, op, item) ==
    /\ status' = how
    /\ last' = Call(op, item, FALSE, FALSE, <<>>, NULL)
    /\ UNCHANGED <<heap, removes>>

(***************************************************************************)
(* empty()                                                                 *)
(***************************************************************************)
\* empty() with the test turned round.
emptyResultNegated == myRoot # NULL

emptyResult == myRoot = NULL

Empty ==
    /\ status = "ok"
    /\ last' = Call("empty", 0, FALSE, emptyResult, <<>>, NULL)
    /\ UNCHANGED <<heap, status, removes>>

(***************************************************************************)
(* search(item): the body is a placeholder, found is never set.            *)
(***************************************************************************)
searchResult(item) == FALSE

Search(item) ==
    /\ status = "ok"
    /\ last' = Call("search", item, FALSE, searchResult(item), <<>>, NULL)
    /\ UNCHANGED <<heap, status, removes>>

(***************************************************************************)
(* insert(item)                                                            *)
(***************************************************************************)
\* The while loop of insert: from locptr, with parent the node before it.
\* fuel counts the nodes still to visit before one is visited twice, which
\* means the loop never ends.  seen is the set of nodes dereferenced.
\* The descent without the test for an equal value: an equal item descends
\* right, as if the second comparison were <=.
RECURSIVE insertDescentNoEqual(_, _, _, _, _)
insertDescentNoEqual(item, locptr, parent, fuel, seen) ==
    IF locptr = NULL
    THEN [found |-> FALSE, parent |-> parent, seen |-> seen, loops |-> FALSE]
    ELSE IF fuel = 0
    THEN [found |-> FALSE, parent |-> parent, seen |-> seen, loops |-> TRUE]
    ELSE IF item < data[locptr]
    THEN insertDescentNoEqual(item, left[locptr], locptr, fuel - 1,
                              seen \cup {locptr})
    ELSE insertDescentNoEqual(item, right[locptr], locptr, fuel - 1,
                              seen \cup {locptr})

\* The descent without the descent to the right: a larger item counts as
\* found.
RECURSIVE insertDescentNoRight(_, _, _, _, _)
insertDescentNoRight(item, locptr, parent, fuel, seen) ==
    IF locptr = NULL
    THEN [found |-> FALSE, parent |-> parent, seen |-> seen, loops |-> FALSE]
    ELSE IF fuel = 0
    THEN [found |-> FALSE, parent |-> parent, seen |-> seen, loops |-> TRUE]
    ELSE IF item < data[locptr]
    THEN insertDescentNoRight(item, left[locptr], locptr, fuel - 1,
                              seen \cup {locptr})
    ELSE [found |-> TRUE, parent |-> locptr, seen |-> seen \cup {locptr},
          loops |-> FALSE]

RECURSIVE insertDescent(_, _, _, _, _)
insertDescent(item, locptr, parent, fuel, seen) ==
    IF locptr = NULL
    THEN [found |-> FALSE, parent |-> parent, seen |-> seen, loops |-> FALSE]
    ELSE IF fuel = 0
    THEN [found |-> FALSE, parent |-> parent, seen |-> seen, loops |-> TRUE]
    ELSE IF item < data[locptr]
    THEN insertDescent(item, left[locptr], locptr, fuel - 1, seen \cup {locptr})
    ELSE IF data[locptr] < item
    THEN insertDescent(item, right[locptr], locptr, fuel - 1, seen \cup {locptr})
    ELSE [found |-> TRUE, parent |-> locptr, seen |-> seen \cup {locptr},
          loops |-> FALSE]

\* The comparison of the link step turned round.
insertGoesLeftSwapped(item, pdata) == pdata < item

\* if (item < parent->data): the side of parent the new node goes to.
insertGoesLeft(item, pdata) == item < pdata

\* The if (!found) branch: the node made in slot n and linked under parent.
insertLink(item, parent, n) ==
    LET data1 == [data EXCEPT ![n] = item]
        left1 == [left EXCEPT ![n] = NULL]
        right1 == [right EXCEPT ![n] = NULL]
    IN  /\ data' = data1
        /\ alloc' = alloc \cup {n}
        /\ IF parent = NULL
           THEN /\ myRoot' = n
                /\ left' = left1
                /\ right' = right1
           ELSE IF insertGoesLeft(item, data1[parent])
           THEN /\ left' = [left1 EXCEPT ![parent] = n]
                /\ right' = right1
                /\ myRoot' = myRoot
           ELSE /\ right' = [right1 EXCEPT ![parent] = n]
                /\ left' = left1
                /\ myRoot' = myRoot

\* new BinNode(item): the store hands out its lowest free slot.
newNode == CHOOSE n \in Ptr \ alloc : \A m \in Ptr \ alloc : n <= m

Insert(item) ==
    /\ status = "ok"
    /\ LET d == insertDescent(item, myRoot, NULL, MaxNodes, {})
       IN  \/ /\ d.loops
              /\ Abend("hang", "insert", item)
           \/ /\ ~d.loops
              /\ ~(d.seen \subseteq alloc)
              /\ Abend("crashed", "insert", item)
           \/ /\ ~d.loops
              /\ d.found
              /\ last' = Call("insert", item, TRUE, FALSE, <<>>, NULL)
              /\ UNCHANGED <<heap, status, removes>>
           \/ /\ ~d.loops
              /\ ~d.found
              /\ alloc # Ptr
              /\ insertLink(item, d.parent, newNode)
              /\ last' = Call("insert", item, FALSE, FALSE, <<>>, newNode)
              /\ UNCHANGED <<status, removes>>

(***************************************************************************)
(* search2(item, found, locptr, parent): the body is a placeholder, so the *)
(* three reference parameters come back as remove left them,              *)
(* uninitialized.  Every value they can hold is an outcome; NULL stands    *)
(* for null and for any address outside the store.                         *)
(***************************************************************************)
search2(item) ==
    [found : BOOLEAN, locptr : PtrOrNull, parent : PtrOrNull]

(***************************************************************************)
(* remove(item)                                                            *)
(***************************************************************************)
\* while (xSucc->left != nullptr) { parent = xSucc; xSucc = xSucc->left; }
RECURSIVE removeDescendLeft(_, _, _, _)
removeDescendLeft(xSucc, parent, fuel, seen) ==
    IF fuel = 0
    THEN [xSucc |-> xSucc, parent |-> parent, seen |-> seen, loops |-> TRUE]
    ELSE IF left[xSucc] # NULL
    THEN removeDescendLeft(left[xSucc], xSucc, fuel - 1, seen \cup {xSucc})
    ELSE [xSucc |-> xSucc, parent |-> parent, seen |-> seen \cup {xSucc},
          loops |-> FALSE]

\* The two-children case without parent = x: the descent starts with parent
\* as search2 gave it.
removeTargetStaleParent(x, parent) ==
    IF left[x] # NULL /\ right[x] # NULL
    THEN removeDescendLeft(right[x], parent, MaxNodes, {x})
    ELSE [xSucc |-> x, parent |-> parent, seen |-> {x}, loops |-> FALSE]

\* The node to unlink and its parent: the inorder successor of x and the
\* node before it when x has two children, else x and parent as search2
\* gave them.
removeTarget(x, parent) ==
    IF left[x] # NULL /\ right[x] # NULL
    THEN removeDescendLeft(right[x], x, MaxNodes, {x})
    ELSE [xSucc |-> x, parent |-> parent, seen |-> {x}, loops |-> FALSE]

\* subtree = x->left; if (subtree == nullptr) subtree = x->right;
removeSubtree(x) == IF left[x] # NULL THEN left[x] ELSE right[x]

\* else if (parent->left == x): which link of parent is replaced.
removeIsLeftChild(parent, x) == left[parent] = x

\* Everything after the found test, for x and parent as search2 gave them.
removeSplice(x0, parent0) ==
    LET t == removeTarget(x0, parent0)
        x == t.xSucc
        parent == t.parent
        subtree == removeSubtree(x)
    IN  /\ data' = IF x # x0 THEN [data EXCEPT ![x0] = data[x]] ELSE data
        /\ IF parent = NULL
           THEN /\ myRoot' = subtree
                /\ UNCHANGED <<left, right>>
           ELSE IF removeIsLeftChild(parent, x)
           THEN /\ left' = [left EXCEPT ![parent] = subtree]
                /\ UNCHANGED <<myRoot, right>>
           ELSE /\ right' = [right EXCEPT ![parent] = subtree]
                /\ UNCHANGED <<myRoot, left>>
        /\ alloc' = alloc \ {x}

\* The slots remove dereferences (or deletes) for x and parent.
removeTouches(x0, parent0) ==
    LET t == removeTarget(x0, parent0)
    IN  t.seen \cup {t.xSucc} \cup (IF t.parent = NULL THEN {} ELSE {t.parent})

\* The calls of remove whose search2 outcome s takes them past the found
\* test: they fault on a null x, never leave the descent, fault on a slot
\* that holds no live node, or splice.
removeFaults(s) ==
    \/ s.locptr = NULL
    \/ /\ s.locptr # NULL
       /\ ~removeTarget(s.locptr, s.parent).loops
       /\ ~(removeTouches(s.locptr, s.parent) \subseteq alloc)

removeLoops(s) ==
    /\ s.locptr # NULL
    /\ removeTarget(s.locptr, s.parent).loops

Remove(item) ==
    /\ status = "ok"
    /\ \/ /\ \E s \in search2(item) : ~s.found
          /\ last' = Call("remove", item, TRUE, FALSE, <<>>, NULL)
          /\ UNCHANGED <<heap, status, removes>>
       \/ /\ removes < MaxRemoves
          /\ \E s \in search2(item) : s.found /\ removeFaults(s)
          /\ Abend("crashed", "remove", item)
       \/ /\ removes < MaxRemoves
          /\ \E s \in search2(item) : s.found /\ removeLoops(s)
          /\ Abend("hang", "remove", item)
       \/ /\ removes < MaxRemoves
          /\ \E s \in search2(item) :
                /\ s.found
                /\ s.locptr # NULL
                /\ ~removeTarget(s.locptr, s.parent).loops
                /\ removeSplice(s.locptr, s.parent)
                /\ last' = Call("remove", item, FALSE, FALSE, <<>>, s.locptr)
          /\ removes' = removes + 1
          /\ UNCHANGED status

(***************************************************************************)
(* inorder, preorder, postorder                                            *)
(***************************************************************************)
\* The separator written after each element.
Sep == 0

\* inorderAux: L, V, R.  depth counts the calls that may still nest before
\* a node is on its own path, which means the recursion never returns.
RECURSIVE inorderAux(_, _)
inorderAux(subtreeRoot, depth) ==
    IF subtreeRoot = NULL
    THEN [out |-> <<>>, seen |-> {}, overflow |-> FALSE]
    ELSE IF depth = 0
    THEN [out |-> <<>>, seen |-> {}, overflow |-> TRUE]
    ELSE LET l == inorderAux(left[subtreeRoot], depth - 1)
             r == inorderAux(right[subtreeRoot], depth - 1)
         IN  [out |-> l.out \o <<data[subtreeRoot], Sep>> \o r.out,
              seen |-> l.seen \cup {subtreeRoot} \cup r.seen,
              overflow |-> l.overflow \/ r.overflow]

\* preorderAux and postorderAux: the bodies are placeholders.
preorderAux(subtreeRoot) == <<>>
postorderAux(subtreeRoot) == <<>>

\* preorder and postorder: the bodies are placeholders, nothing is called.
preorderOutput == <<>>
postorderOutput == <<>>

Inorder ==
    /\ status = "ok"
    /\ LET t == inorderAux(myRoot, MaxNodes)
       IN  \/ /\ t.overflow
              /\ Abend("crashed", "inorder", 0)
           \/ /\ ~t.overflow
              /\ ~(t.seen \subseteq alloc)
              /\ Abend("crashed", "inorder", 0)
           \/ /\ ~t.overflow
              /\ last' = Call("inorder", 0, FALSE, FALSE, t.out, NULL)
              /\ UNCHANGED <<heap, status, removes>>

Preorder ==
    /\ status = "ok"
    /\ last' = Call("preorder", 0, FALSE, FALSE, preorderOutput, NULL)
    /\ UNCHANGED <<heap, status, removes>>

Postorder ==
    /\ status = "ok"
    /\ last' = Call("postorder", 0, FALSE, FALSE, postorderOutput, NULL)
    /\ UNCHANGED <<heap, status, removes>>

Next ==
    \/ Empty
    \/ \E item \in Val : Search(item)
    \/ \E item \in Val : Insert(item)
    \/ \E item \in Val : Remove(item)
    \/ Inorder
    \/ Preorder
    \/ Postorder

Spec == Init /\ [][Next]_vars

(***************************************************************************)
(* The tree as the data model describes it.                                *)
(***************************************************************************)
\* The slots the links of the slots in S lead to.
Children(S) == ({left[p] : p \in S} \cup {right[p] : p \in S}) \ {NULL}

RECURSIVE ReachFrom(_, _)
ReachFrom(S, n) == IF n = 0 THEN S ELSE ReachFrom(S \cup Children(S), n - 1)

\* The nodes of the subtree at p: p and everything its links lead to.
Reach(p) == IF p = NULL THEN {} ELSE ReachFrom({p}, MaxNodes)

\* The nodes and the values of the tree.
Nodes == Reach(myRoot)
Elements == {data[p] : p \in Nodes}

\* The BST order property at every node of the tree.
Ordered ==
    \A n \in Nodes :
        /\ \A m \in Reach(left[n]) : data[m] < data[n]
        /\ \A m \in Reach(right[n]) : data[n] < data[m]

\* The links that refer to node n: <<p, "left">>, <<p, "right">>, <<0, "root">>.
LinksTo(n) ==
    {<<p, "left">> : p \in {q \in Ptr : left[q] = n}}
        \cup {<<p, "right">> : p \in {q \in Ptr : right[q] = n}}
        \cup (IF myRoot = n THEN {<<NULL, "root">>} ELSE {})

\* A rooted tree of live nodes: every live node is in the tree, every node of
\* the tree is live, each is referred to by exactly one link, and the order
\* property holds.
WellFormed ==
    /\ Nodes = alloc
    /\ \A n \in alloc : Cardinality({l \in LinksTo(n) : l[1] \in alloc \cup {NULL}}) = 1
    /\ Ordered

(***************************************************************************)
(* Runs in which remove is never called, and runs of empty, insert and     *)
(* remove that go on only while the tree is well-formed (a call that       *)
(* leaves it otherwise is the last).                                       *)
(***************************************************************************)
NextIns ==
    \/ Empty
    \/ \E item \in Val : Search(item)
    \/ \E item \in Val : Insert(item)
    \/ Inorder
    \/ Preorder
    \/ Postorder

SpecIns == Init /\ [][NextIns]_vars

NextWF ==
    /\ WellFormed
    /\ \/ Empty
       \/ \E item \in Val : Insert(item)
       \/ \E item \in Val : Remove(item)

SpecWF == Init /\ [][NextWF]_vars

(***************************************************************************)
(* What the properties below speak of.                                     *)
(***************************************************************************)
\* The element values of an output: the odd places; the even ones hold Sep.
Values(out) == [i \in 1..(Len(out) \div 2) |-> out[2 * i - 1]]

Separated(out) ==
    /\ Len(out) % 2 = 0
    /\ \A i \in 1..(Len(out) \div 2) : out[2 * i] = Sep

Ascending(q) == \A i \in 1..(Len(q) - 1) : q[i] < q[i + 1]

\* The values of the subtree at p in the order named, for a tree of depth
\* at most depth.
RECURSIVE Traversal(_, _, _)
Traversal(order, p, depth) ==
    IF p = NULL \/ depth = 0
    THEN <<>>
    ELSE LET l == Traversal(order, left[p], depth - 1)
             r == Traversal(order, right[p], depth - 1)
             v == <<data[p]>>
         IN  IF order = "inorder" THEN l \o v \o r
             ELSE IF order = "preorder" THEN v \o l \o r
             ELSE l \o r \o v

InorderValues == Traversal("inorder", myRoot, MaxNodes)

\* q without its elements equal to v.
Excise(q, v) ==
    LET Keep(e) == e # v
    IN  SelectSeq(q, Keep)

\* The links of the live nodes, and myRoot, as a function.
LinkNames == (alloc \X {"left", "right"}) \cup {<<NULL, "root">>}
LinkValue(l) ==
    IF l[2] = "root" THEN myRoot
    ELSE IF l[2] = "left" THEN left[l[1]] ELSE right[l[1]]

(***************************************************************************)
(* C1: after any sequence of insert and remove calls the BST order         *)
(* property holds at every node of the tree, and inorder emits the values  *)
(* in strictly ascending order.                                            *)
(***************************************************************************)
C1_OrderInvariant ==
    status = "ok" =>
        /\ Ordered
        /\ last.op = "inorder" => Ascending(Values(last.out))

(***************************************************************************)
(* C2: search(v) returns true exactly when v is a value of the tree.       *)
(***************************************************************************)
C2_SearchFinds ==
    (status = "ok" /\ last.op = "search") => (last.ret <=> last.item \in Elements)

(***************************************************************************)
(* C3: insert of a value that is already in the tree throws and leaves    *)
(* every node, value and link as it was.                                   *)
(***************************************************************************)
C3_InsertDuplicate ==
    [][(last'.op = "insert" /\ last'.item \in Elements)
         => (last'.threw /\ status' = "ok" /\ heap' = heap)]_vars

C3_Witness ==
    /\ last.op = "insert"
    /\ last.threw
    /\ last.item \in Elements
    /\ last.item # data[myRoot]

(***************************************************************************)
(* C4: remove of a value that is not in the tree throws and leaves every   *)
(* node, value and link as it was.  Stated for the calls that return and   *)
(* whose x, if they have one, is a live node.                              *)
(***************************************************************************)
C4_RemoveAbsent ==
    [][(last'.op = "remove" /\ status' = "ok" /\ WellFormed
            /\ last'.item \notin Elements
            /\ last'.x \in alloc \cup {NULL})
         => (last'.threw /\ heap' = heap)]_vars

(***************************************************************************)
(* C5: remove of a value that is in the tree returns normally, and the     *)
(* inorder sequence afterwards is the one before with that value excised.  *)
(***************************************************************************)
C5_RemovePresent ==
    [][(last'.op = "remove" /\ WellFormed /\ last'.item \in Elements)
         => /\ ~last'.threw
            /\ status' = "ok"
            /\ InorderValues' = Excise(InorderValues, last'.item)]_vars

(***************************************************************************)
(* C6: insert of a value that is not in the tree returns normally; the     *)
(* values afterwards are those before plus the item, one node more.        *)
(***************************************************************************)
C6_InsertNew ==
    [][(last'.op = "insert" /\ last'.item \notin Elements)
         => /\ ~last'.threw
            /\ status' = "ok"
            /\ Elements' = Elements \cup {last'.item}
            /\ Cardinality(Nodes') = Cardinality(Nodes) + 1]_vars

C6_Witness ==
    /\ last.op = "insert"
    /\ ~last.threw
    /\ status = "ok"
    /\ Cardinality(Elements) >= 3

(***************************************************************************)
(* C7: on a tree of n elements inorder, preorder and postorder each emit   *)
(* the n values once, in left-value-right, value-left-right and            *)
(* left-right-value order.                                                 *)
(***************************************************************************)
C7_Traversals ==
    (status = "ok" /\ WellFormed
        /\ last.op \in {"inorder", "preorder", "postorder"})
      => /\ Separated(last.out)
         /\ Len(Values(last.out)) = Cardinality(Nodes)
         /\ Values(last.out) = Traversal(last.op, myRoot, MaxNodes)

(***************************************************************************)
(* C8: empty() returns true exactly when the tree holds no element, and    *)
(* changes nothing; after a successful insert it is false.                 *)
(***************************************************************************)
C8_Empty ==
    [][/\ last'.op = "empty"
            => /\ last'.ret <=> Elements = {}
               /\ heap' = heap
               /\ status' = status
       /\ (last'.op = "insert" /\ ~last'.threw /\ status' = "ok")
            => ~emptyResult']_vars

\* empty() is true again after the tree held a value that remove took out.
C8_Witness ==
    /\ last.op = "empty"
    /\ last.ret
    /\ removes > 0
    /\ \E p \in Ptr : data[p] # NoVal

(***************************************************************************)
(* C9: remove on a node x with two children unlinks and destroys x's       *)
(* inorder successor s (the least node of x's right subtree, which has no  *)
(* left child); x stays where it is with s's value; the one link that      *)
(* changes is x's right link when x's right child has no left child, and   *)
(* otherwise the left link of the node whose left child s is; it becomes   *)
(* s's right child.                                                        *)
(***************************************************************************)
C9_Post(x) ==
    LET R == Reach(right[x])
        s == CHOOSE m \in R : \A k \in R : data[m] <= data[k]
        viaX == left[right[x]] = NULL
        p == IF viaX THEN x ELSE CHOOSE q \in R : left[q] = s
    IN  /\ left[s] = NULL
        /\ alloc' = alloc \ {s}
        /\ data' = [data EXCEPT ![x] = data[s]]
        /\ myRoot' = myRoot
        /\ IF viaX
           THEN /\ s = right[x]
                /\ right' = [right EXCEPT ![x] = right[s]]
                /\ left' = left
           ELSE /\ p # x
                /\ left' = [left EXCEPT ![p] = right[s]]
                /\ right' = right

C10_Post(n, item) ==
    /\ n \notin alloc
    /\ alloc' = alloc \cup {n}
    /\ data'[n] = item /\ left'[n] = NULL /\ right'[n] = NULL
    /\ \A p \in alloc : data'[p] = data[p]
    /\ \E l \in LinkNames :
          /\ LinkValue(l) = NULL
          /\ LinkValue(l)' = n
          /\ \A k \in LinkNames \ {l} : LinkValue(k)' = LinkValue(k)
    /\ myRoot = NULL => myRoot' = n
    /\ WellFormed'

C10_InsertFrame ==
    [][(last'.op = "insert" /\ ~last'.threw /\ status' = "ok")
         => C10_Post(last'.x, last'.item)]_vars

C10_Witness ==
    /\ last.op = "insert"
    /\ ~last.threw
    /\ status = "ok"
    /\ alloc = Ptr
    /\ \E p \in alloc : left[p] # NULL /\ right[p] # NULL
====
